---- MODULE Spec2Model ----
(***************************************************************************)
(* Model of main.py: Isolation-Forest anomaly detection over three         *)
(* datasets, with the 'Switch Data' and 'Export CSV' button handlers.      *)
(*                                                                         *)
(* A DataFrame is a function from column names to equally long sequences   *)
(* (pandas stores columns); a DataFrame object lives in the heap `frames`  *)
(* under an object id, so that datasets[name] and current_data['data']     *)
(* can alias the same object, as they do in Python.                        *)
(*                                                                         *)
(* Numbers: a rolling mean is an exact rational [num, den] in lowest       *)
(* terms; a rolling std_dev is NaN or [sqrt_of |-> v], the number whose    *)
(* square is the rational sample variance v.  contamination is held in     *)
(* hundredths (0.01 is 1), which is also the percentile 100*contamination  *)
(* that the forest takes of its scores.                                    *)
(***************************************************************************)
EXTENDS Integers, Sequences, FiniteSets, TLC

VARIABLES pc, current_data, frames, files, fitted, plotted, ret

vars == <<pc, current_data, frames, files, fitted, plotted, ret>>

---------------------------------------------------------------------------
(* Bounds of the model *)

\* the observations of a CSV file that is not empty, in the GUI
MaxLen == 2
\* longest batch handed to a direct call of detect_anomalies_isolation_forest
MaxCallLen == 6
\* the observation values of the generated batches
Values == {1, 2}
\* every batch over Values of at most n observations
BatchesUpTo(n) == UNION {[1..k -> Values] : k \in 0..n}
\* the batches a CSV file of the GUI holds: none or MaxLen observations
FileBatches == {<<>>} \cup [1..MaxLen -> Values]
\* the scenario batch of the specification, section 8
ScenarioBatch == <<1, 2, 3, 4, 5, 100>>
\* contamination arguments of a direct call, in hundredths
Contaminations == {0, 1, 25, 50, 75}

(* Program constants *)

\* rolling(window=5, ...)
WindowSize == 5
\* rolling(..., min_periods=1)
MinPeriods == 1
\* contamination=0.01, in hundredths
DefaultContamination == 1
\* the label fit_predict gives an anomaly, and a normal point
Anomaly == -1
Normal == 1

\* float('nan'), and Python's None
NaN == [nan |-> TRUE]
None == [none |-> TRUE]

---------------------------------------------------------------------------
(* Arithmetic helpers *)

Max(a, b) == IF a >= b THEN a ELSE b

Abs(a) == IF a < 0 THEN -a ELSE a

RECURSIVE GCD(_, _)
GCD(a, b) == IF b = 0 THEN a ELSE GCD(b, a % b)

\* the rational n/d (d > 0) in lowest terms
Rat(n, d) ==
    LET g == GCD(Abs(n), d)
    IN  [num |-> n \div g, den |-> d \div g]

RECURSIVE SumSeq(_)
SumSeq(s) == IF s = <<>> THEN 0 ELSE Head(s) + SumSeq(Tail(s))

Squares(s) == [i \in 1..Len(s) |-> s[i] * s[i]]

Range(s) == {s[i] : i \in 1..Len(s)}

\* the rows of s at the indices where mask holds, in order
RECURSIVE Take(_, _, _)
Take(s, mask, i) ==
    IF i > Len(s) THEN <<>>
    ELSE (IF mask[i] THEN <<s[i]>> ELSE <<>>) \o Take(s, mask, i + 1)

---------------------------------------------------------------------------
(* pandas: Series.rolling(window=5, min_periods=1) *)

\* (a window one row too long)
WindowOfSix(values, i) == SubSeq(values, Max(1, i - WindowSize), i)

\* the trailing window that ends at row i (rows are numbered from 1 here)
Window(values, i) == SubSeq(values, Max(1, i - WindowSize + 1), i)

\* .mean(): NaN below min_periods observations
RollingMean(values) ==
    [i \in 1..Len(values) |->
        LET w == Window(values, i)
        IN  IF Len(w) < MinPeriods THEN NaN ELSE Rat(SumSeq(w), Len(w))]

\* (the std_dev of a single observation is given as 0)
RollingStdZeroForOne(values) ==
    [i \in 1..Len(values) |->
        LET w == Window(values, i)
            n == Len(w)
        IN  IF n < MinPeriods THEN NaN
            ELSE IF n = 1 THEN [sqrt_of |-> Rat(0, 1)]
            ELSE [sqrt_of |->
                    Rat(n * SumSeq(Squares(w)) - SumSeq(w) * SumSeq(w),
                        n * (n - 1))]]

\* (ddof = 0: the population variance)
RollingStdPopulation(values) ==
    [i \in 1..Len(values) |->
        LET w == Window(values, i)
            n == Len(w)
        IN  IF n < MinPeriods \/ n - 1 <= 0 THEN NaN
            ELSE [sqrt_of |->
                    Rat(n * SumSeq(Squares(w)) - SumSeq(w) * SumSeq(w),
                        n * n)]]

\* .std(): ddof = 1, so NaN for a window of one observation
RollingStd(values) ==
    [i \in 1..Len(values) |->
        LET w == Window(values, i)
            n == Len(w)
        IN  IF n < MinPeriods \/ n - 1 <= 0 THEN NaN
            ELSE [sqrt_of |->
                    Rat(n * SumSeq(Squares(w)) - SumSeq(w) * SumSeq(w),
                        n * (n - 1))]]

---------------------------------------------------------------------------
(* DataFrames *)

NRows(df) == Len(df["value"])

\* pd.read_csv of a file of the batch, timestamps converted
ReadCsv(batch) ==
    [c \in {"timestamp", "value"} |->
        IF c = "timestamp" THEN [i \in 1..Len(batch) |-> i] ELSE batch]

\* data[col] = column
SetColumn(df, col, column) ==
    [c \in DOMAIN df \cup {col} |-> IF c = col THEN column ELSE df[c]]

\* data[mask]: a new DataFrame of the rows where mask holds
BooleanIndex(df, mask) ==
    [c \in DOMAIN df |-> Take(df[c], mask, 1)]

\* data[[...columns]]
Project(df, columns) ==
    [c \in Range(columns) |-> df[c]]

---------------------------------------------------------------------------
(* sklearn: IsolationForest(contamination, random_state=42).fit_predict(X) *)
(*                                                                         *)
(* The trees are drawn from a generator seeded with the fixed value 42 on  *)
(* every fit, so the score of a row is a fixed function of the matrix X    *)
(* fitted and of that row's features; this model does not compute it.      *)
(* `fitted` remembers, for every matrix fitted so far, the score function  *)
(* the seeded forest has for it, and a fit of a new matrix may find any.   *)
(* The labels depend only on how the scores compare with each other (see   *)
(* Percentile100), so a score function is given as dense ranks 1..k, the   *)
(* lowest rank being the most abnormal (sklearn's score_samples).          *)

\* (the label column of an earlier call is taken as a second feature)
FeatureMatrixWithLabels(data) ==
    [i \in 1..NRows(data) |->
        IF "anomaly" \in DOMAIN data
        THEN <<data["value"][i], data["anomaly"][i]>>
        ELSE <<data["value"][i]>>]

\* line 13: data[['value']].values, an n x 1 matrix
FeatureMatrix(data) == [i \in 1..NRows(data) |-> <<data["value"][i]>>]

\* the score functions a forest may have for the rows of X
ScoreFns(X) ==
    LET rows == Range(X)
        ranks == 1..Cardinality(rows)
    IN  {f \in [rows -> ranks] :
            \A r \in ranks : (\E x \in rows : f[x] = r)
                                => \A q \in 1..r : \E x \in rows : f[x] = q}

\* score_samples(X) of a forest with score function f
ScoreSamples(X, f) == [i \in 1..Len(X) |-> f[X[i]]]

\* the k-th smallest of the scores s
KthSmallest(s, k) ==
    CHOOSE v \in Range(s) :
        /\ Cardinality({i \in 1..Len(s) : s[i] < v}) < k
        /\ Cardinality({i \in 1..Len(s) : s[i] <= v}) >= k

\* 100 * np.percentile(s, q), linear interpolation between the two nearest
\* order statistics
Percentile100(s, q) ==
    LET pos == (Len(s) - 1) * q
        lo == pos \div 100
        frac == pos % 100
        a == KthSmallest(s, lo + 1)
        b == IF frac = 0 THEN a ELSE KthSmallest(s, lo + 2)
    IN  a * (100 - frac) + b * frac

\* offset_ = np.percentile(score_samples(X), 100 * contamination), times 100
Offset100(X, f, contamination) ==
    Percentile100(ScoreSamples(X, f), contamination)

\* (a score equal to the offset counts as an outlier)
IsOutlierOrTie(score, offset100) == 100 * score <= offset100

\* predict: -1 where decision_function = score_samples - offset_ is below 0
IsOutlier(score, offset100) == 100 * score < offset100

\* (the labels of the scores in ascending order, not in row order)
PredictSorted(X, f, contamination) ==
    LET s == ScoreSamples(X, f)
        off == Offset100(X, f, contamination)
    IN  [i \in 1..Len(X) |->
            IF IsOutlier(KthSmallest(s, i), off) THEN Anomaly ELSE Normal]

Predict(X, f, contamination) ==
    LET s == ScoreSamples(X, f)
        off == Offset100(X, f, contamination)
    IN  [i \in 1..Len(X) |-> IF IsOutlier(s[i], off) THEN Anomaly ELSE Normal]

\* fit raises ValueError: contamination outside (0, 0.5], or no sample in X
FitRaises(X, contamination) ==
    \/ contamination <= 0
    \/ contamination > 50
    \/ Len(X) = 0

---------------------------------------------------------------------------
(* detect_anomalies_isolation_forest(data, contamination), lines 8-25 *)

\* (data is replaced by its anomalous rows)
ScoreColumnsKeepAnomalies(data, contamination, f) ==
    LET d1 == SetColumn(data, "anomaly",
                        Predict(FeatureMatrix(data), f, contamination))
        d2 == SetColumn(d1, "mean", RollingMean(d1["value"]))
        d3 == SetColumn(d2, "std_dev", RollingStd(d2["value"]))
    IN  BooleanIndex(d3, [i \in 1..NRows(d3) |-> d3["anomaly"][i] = Anomaly])

\* lines 17-21: the three column assignments, in place
ScoreColumns(data, contamination, f) ==
    LET d1 == SetColumn(data, "anomaly",
                        Predict(FeatureMatrix(data), f, contamination))
        d2 == SetColumn(d1, "mean", RollingMean(d1["value"]))
    IN  SetColumn(d2, "std_dev", RollingStd(d2["value"]))

\* lines 24-25: the rows labelled -1
Anomalies(data) ==
    BooleanIndex(data, [i \in 1..NRows(data) |-> data["anomaly"][i] = Anomaly])

\* (the rolling columns are assigned before the forest is fitted)
DetectRollingFirst(data, contamination, f) ==
    LET d1 == SetColumn(data, "mean", RollingMean(data["value"]))
        d2 == SetColumn(d1, "std_dev", RollingStd(d1["value"]))
    IN  IF FitRaises(FeatureMatrix(data), contamination)
        THEN [raised |-> TRUE, data |-> d2, anomalies |-> None]
        ELSE LET scored == ScoreColumns(data, contamination, f)
             IN  [raised |-> FALSE, data |-> scored,
                  anomalies |-> Anomalies(scored)]

\* the call's outcome: the exception or the returned rows, and data after it
DetectAnomaliesIsolationForest(data, contamination, f) ==
    IF FitRaises(FeatureMatrix(data), contamination)
    THEN [raised |-> TRUE, data |-> data, anomalies |-> None]
    ELSE LET scored == ScoreColumns(data, contamination, f)
         IN  [raised |-> FALSE, data |-> scored, anomalies |-> Anomalies(scored)]

---------------------------------------------------------------------------
(* main: the datasets, lines 122-140 *)

\* list(datasets.keys()): a dict keeps the order its keys were inserted in
dataset_names ==
    <<"Server CPU Load", "Ambient System Temperature", "NYC Taxi Demand">>

\* the DataFrame objects cpu_data, temperature_data and nyc_taxi
ObjIds == 1..Len(dataset_names)

\* the dict datasets: each name is bound to its own DataFrame object, and
\* no line rebinds a key
datasets == [n \in Range(dataset_names) |->
                CHOOSE o \in ObjIds : dataset_names[o] = n]

\* dataset_names.index(name)
Index(name) == CHOOSE i \in 1..Len(dataset_names) : dataset_names[i] = name

\* (the index is advanced by two)
NextNameSkipping(name) ==
    dataset_names[((Index(name) + 1) % Len(dataset_names)) + 1]

\* lines 99-101: the name after current_data['name'], cyclically
NextName(name) == dataset_names[(Index(name) % Len(dataset_names)) + 1]

\* (the second comparison misses the Temperature dataset's name)
FilenameMisspelt(dataset_name) ==
    IF dataset_name = "Server CPU Load" THEN "cpu_anomalies.csv"
    ELSE IF dataset_name = "Ambient Temperature"
         THEN "temperature_anomalies.csv"
         ELSE "nyc_taxi_anomalies.csv"

\* lines 69-74
Filename(dataset_name) ==
    IF dataset_name = "Server CPU Load" THEN "cpu_anomalies.csv"
    ELSE IF dataset_name = "Ambient System Temperature"
         THEN "temperature_anomalies.csv"
         ELSE "nyc_taxi_anomalies.csv"

\* the paths of the working directory that the program may write
Filenames ==
    {"cpu_anomalies.csv", "temperature_anomalies.csv", "nyc_taxi_anomalies.csv"}

\* line 77: the columns written
CsvColumns == <<"timestamp", "value", "mean", "std_dev">>

\* to_csv writes a missing value (NaN) as an empty field
EmptyField == [text |-> ""]

CsvFloat(x) == IF x = NaN THEN EmptyField ELSE x

\* line 77: anomalies[[...]].to_csv(filename, index=False): the header and
\* one line per row, in the frame's row order
ToCsv(anomalies) ==
    LET df == Project(anomalies, CsvColumns)
    IN  [header |-> CsvColumns,
         lines |-> [i \in 1..NRows(df) |->
                      <<df["timestamp"][i], df["value"][i],
                        CsvFloat(df["mean"][i]), CsvFloat(df["std_dev"][i])>>]]

---------------------------------------------------------------------------
(* The forest's scores: what a fit of X finds *)

\* the score functions the forest fitted to X may have: the one it had
\* before, if X was fitted before
Forests(X) ==
    IF X \in DOMAIN fitted THEN {fitted[X]} ELSE ScoreFns(X)

Remember(X, f) ==
    [k \in DOMAIN fitted \cup {X} |-> IF k = X THEN f ELSE fitted[k]]

---------------------------------------------------------------------------
(* Calls *)

\* detect_anomalies_isolation_forest(data, contamination) on the DataFrame
\* object o, the forest finding the score function f; ret is what the
\* caller gets
Detect(o, contamination, f) ==
    LET out == DetectAnomaliesIsolationForest(frames[o], contamination, f)
    IN  /\ f \in Forests(FeatureMatrix(frames[o]))
        /\ frames' = [frames EXCEPT ![o] = out.data]
        /\ fitted' = IF out.raised THEN fitted
                     ELSE Remember(FeatureMatrix(frames[o]), f)
        /\ ret' = [data |-> o, contamination |-> contamination,
                   raised |-> out.raised, anomalies |-> out.anomalies]

\* process_full_data(fig, ax, data, dataset_name), lines 81-87: the
\* detection with the default contamination, then visualize_data, which an
\* exception of the detection skips
ProcessFullData(o, dataset_name, f) ==
    /\ Detect(o, DefaultContamination, f)
    /\ plotted' = IF ret'.raised THEN plotted ELSE dataset_name

---------------------------------------------------------------------------
(* The program *)

\* the state at line 156: the CSV files are read, current_data names the
\* CPU dataset, the buttons are wired, nothing is scored or drawn yet
Init ==
    /\ pc = "main"
    /\ frames \in [ObjIds -> {ReadCsv(b) : b \in FileBatches}]
    /\ current_data = [name |-> "Server CPU Load",
                       data |-> datasets["Server CPU Load"]]
    /\ files = [fn \in Filenames |-> None]
    /\ fitted = <<>>
    /\ plotted = ""
    /\ ret = None

\* lines 157-159: the initial processing, then the event loop; an exception
\* ends the program
Main ==
    /\ pc = "main"
    /\ \E f \in Forests(FeatureMatrix(frames[current_data.data])) :
          ProcessFullData(current_data.data, current_data.name, f)
    /\ pc' = IF ret'.raised THEN "crashed" ELSE "show"
    /\ UNCHANGED <<current_data, files>>

\* lines 90-106: the 'Switch Data' click.  An exception of the processing is
\* reported by the event loop, after lines 100-101 have run
switch_dataset ==
    /\ pc = "show"
    /\ LET name == NextName(current_data.name)
           o == datasets[name]
       IN  /\ current_data' = [name |-> name, data |-> o]
           /\ \E f \in Forests(FeatureMatrix(frames[o])) :
                 ProcessFullData(o, name, f)
    /\ UNCHANGED <<pc, files>>

\* lines 109-115 and 63-78: the 'Export CSV' click.  An exception of the
\* processing is reported by the event loop and nothing is written
save_anomalies ==
    /\ pc = "show"
    /\ \E f \in Forests(FeatureMatrix(frames[current_data.data])) :
          ProcessFullData(current_data.data, current_data.name, f)
    /\ files' = IF ret'.raised THEN files
                ELSE [files EXCEPT ![Filename(current_data.name)] =
                                      ToCsv(ret'.anomalies)]
    /\ UNCHANGED <<pc, current_data>>

Next == Main \/ switch_dataset \/ save_anomalies

Spec == Init /\ [][Next]_vars

---------------------------------------------------------------------------
(* Direct calls of detect_anomalies_isolation_forest, with the caller's    *)
(* contamination, on a DataFrame that may carry the columns of earlier     *)
(* calls                                                                   *)

InitCall ==
    /\ pc = "call"
    /\ \E b \in BatchesUpTo(MaxCallLen) \cup {ScenarioBatch} :
          frames = [o \in ObjIds |-> IF o = 1 THEN ReadCsv(b)
                                               ELSE ReadCsv(<<>>)]
    /\ current_data = [name |-> "Server CPU Load",
                       data |-> datasets["Server CPU Load"]]
    /\ files = [fn \in Filenames |-> None]
    /\ fitted = <<>>
    /\ plotted = ""
    /\ ret = None

\* lines 8-25, called on the object o
detect_anomalies_isolation_forest(o, contamination) ==
    /\ pc = "call"
    /\ \E f \in Forests(FeatureMatrix(frames[o])) :
          Detect(o, contamination, f)
    /\ UNCHANGED <<pc, current_data, files, plotted>>

NextCall ==
    \E contamination \in Contaminations :
        detect_anomalies_isolation_forest(current_data.data, contamination)

SpecCall == InitCall /\ [][NextCall]_vars

---------------------------------------------------------------------------
(* Vocabulary of the properties *)

\* the DataFrame carries the columns of a scoring pass
Scored(df) == {"anomaly", "mean", "std_dev"} \subseteq DOMAIN df

\* the rows of df labelled anomalous, as a set of row numbers
Flagged(df) == {i \in 1..NRows(df) : df["anomaly"][i] = Anomaly}

\* the sum of values over the row numbers in rows
RECURSIVE SumOver(_, _)
SumOver(values, rows) ==
    IF rows = {} THEN 0
    ELSE LET j == CHOOSE k \in rows : TRUE
         IN  values[j] + SumOver(values, rows \ {j})

\* the rows of the trailing window of five that ends at row i: the spec's
\* [max(0, i-4), i], rows numbered from 1
Trailing5(i) == {j \in 1..i : j >= i - 4}

\* the k-th flagged row of df, counting from the top
KthFlagged(df, k) ==
    CHOOSE i \in Flagged(df) :
        Cardinality({j \in Flagged(df) : j < i}) = k - 1

\* what an export of df must hold: the four columns, and the flagged rows
\* in batch order
ExportOf(df) ==
    [header |-> <<"timestamp", "value", "mean", "std_dev">>,
     lines |-> [k \in 1..Cardinality(Flagged(df)) |->
                  LET i == KthFlagged(df, k)
                  IN  <<df["timestamp"][i], df["value"][i],
                        IF df["mean"][i] = NaN THEN EmptyField
                                               ELSE df["mean"][i],
                        IF df["std_dev"][i] = NaN THEN EmptyField
                                                  ELSE df["std_dev"][i]>>]]

\* the file the claim names for each dataset
FileOf(name) ==
    CASE name = "Server CPU Load" -> "cpu_anomalies.csv"
      [] name = "Ambient System Temperature" -> "temperature_anomalies.csv"
      [] name = "NYC Taxi Demand" -> "nyc_taxi_anomalies.csv"

\* the fixed cyclic order CPU -> Temperature -> NYC Taxi -> CPU
After(name) ==
    CASE name = "Server CPU Load" -> "Ambient System Temperature"
      [] name = "Ambient System Temperature" -> "NYC Taxi Demand"
      [] name = "NYC Taxi Demand" -> "Server CPU Load"

---------------------------------------------------------------------------
(* C1 *)

\* C1: after a scoring pass, the mean of every row i is the arithmetic mean
\* of value over exactly the rows [max(0, i-4), i], a shorter window for the
\* first four rows; no row after i takes part.
C1_RollingMeanIsTrailing ==
    \A o \in ObjIds :
        Scored(frames[o]) =>
            /\ Len(frames[o]["mean"]) = NRows(frames[o])
            /\ \A i \in 1..NRows(frames[o]) :
                  LET m == frames[o]["mean"][i]
                  IN  /\ m # NaN
                      /\ m.num * Cardinality(Trailing5(i))
                            = m.den * SumOver(frames[o]["value"], Trailing5(i))

\* a scored batch of six rows whose sixth mean is that of rows 2..6 and
\* differs from the mean of all six rows
C1_Witness ==
    \E o \in ObjIds :
        /\ Scored(frames[o])
        /\ NRows(frames[o]) >= 6
        /\ frames[o]["value"][1] # frames[o]["value"][6]
        /\ frames[o]["mean"][6].num * 6
              # frames[o]["mean"][6].den * SumOver(frames[o]["value"], 1..6)

---------------------------------------------------------------------------
(* C2 *)

---------------------------------------------------------------------------
(* C3 *)

\* C3: a scoring pass of a non-empty batch succeeds and leaves one label,
\* one mean and one std_dev per observation, in the input order: the four
\* columns are as long as the batch, the timestamps are in their loaded
\* order, every label is -1 or 1 and is the label of the observation at its
\* own position (-1 exactly when that observation's score is below the
\* forest's offset).
C3_OneScoredRowPerObservation ==
    /\ ret # None =>
          (ret.raised <=> NRows(frames[ret.data]) = 0)
    /\ \A o \in ObjIds :
          Scored(frames[o]) =>
            LET df == frames[o]
                n == NRows(df)
                X == [i \in 1..n |-> <<df["value"][i]>>]
                s == [i \in 1..n |-> fitted[X][X[i]]]
            IN  /\ n > 0
                /\ Len(df["anomaly"]) = n
                /\ Len(df["mean"]) = n
                /\ Len(df["std_dev"]) = n
                /\ df["timestamp"] = [i \in 1..n |-> i]
                /\ \A i \in 1..n :
                      /\ df["anomaly"][i] \in {-1, 1}
                      /\ df["anomaly"][i] = -1
                            <=> 100 * s[i] < Percentile100(s, DefaultContamination)

\* a scored batch whose second row, and not its first, is flagged
C3_Witness ==
    \E o \in ObjIds :
        /\ Scored(frames[o])
        /\ NRows(frames[o]) >= 2
        /\ frames[o]["anomaly"][1] = Normal
        /\ frames[o]["anomaly"][2] = Anomaly

---------------------------------------------------------------------------
(* C4 *)

\* C4: a scoring call gives the labels, means and std_devs that any earlier
\* call gave for the same batch values (the contamination is the default in
\* every call of the program): the columns a call leaves equal the columns
\* that the same DataFrame carried before it, and those of every other
\* scored dataset with the same values.
C4_SameBatchSameResult ==
    [][ \A o1, o2 \in ObjIds :
          (/\ Scored(frames'[o1])
           /\ Scored(frames[o2])
           /\ frames'[o1]["value"] = frames[o2]["value"])
          => /\ frames'[o1]["anomaly"] = frames[o2]["anomaly"]
             /\ frames'[o1]["mean"] = frames[o2]["mean"]
             /\ frames'[o1]["std_dev"] = frames[o2]["std_dev"]
      ]_vars

\* two datasets with the same values are scored and have a flagged row, and
\* one of them was scored again by an export
C4_Witness ==
    \E o1, o2 \in ObjIds :
        /\ o1 # o2
        /\ Scored(frames[o1])
        /\ Scored(frames[o2])
        /\ frames[o1]["value"] = frames[o2]["value"]
        /\ Flagged(frames[o1]) # {}
        /\ files[FileOf(dataset_names[o1])] # None
        /\ files[FileOf(dataset_names[o2])] # None

---------------------------------------------------------------------------
(* C5 *)

\* the scores and the offset (times 100) of the call that returned last
LastScores ==
    LET df == frames[ret.data]
        X == [i \in 1..NRows(df) |-> <<df["value"][i]>>]
    IN  [i \in 1..NRows(df) |-> fitted[X][X[i]]]

LastOffset100 == Percentile100(LastScores, ret.contamination)

\* C5 as claimed: every observation whose score is at or beyond the
\* threshold is flagged, ties with the threshold included, and the flagged
\* observations are never fewer than contamination * |batch|.  (Scores here
\* are sklearn's, the lower the more abnormal, so "at or beyond" is "<=".)
C5_Original ==
    (ret # None /\ ~ret.raised) =>
        LET df == frames[ret.data]
        IN  /\ \A i \in 1..NRows(df) :
                  100 * LastScores[i] <= LastOffset100
                      => df["anomaly"][i] = -1
            /\ 100 * Cardinality(Flagged(df))
                  >= ret.contamination * NRows(df) - 99

\* C5 as amended: an observation is flagged exactly when its score is
\* strictly beyond the threshold; an observation whose score ties with the
\* threshold is not flagged.  So the flagged observations number at most
\* ceil(contamination * (|batch| - 1)), and may be fewer than
\* contamination * |batch|.
C5_FlaggedStrictlyBeyondThreshold ==
    (ret # None /\ ~ret.raised) =>
        LET df == frames[ret.data]
        IN  /\ \A i \in 1..NRows(df) :
                  df["anomaly"][i] = -1
                      <=> 100 * LastScores[i] < LastOffset100
            /\ 100 * Cardinality(Flagged(df))
                  < ret.contamination * (NRows(df) - 1) + 100

\* a call with contamination 0.5 on four observations or more, where a
\* score ties with the threshold, is not flagged, and fewer observations
\* are flagged than contamination * |batch|
C5_Witness ==
    /\ ret # None
    /\ ~ret.raised
    /\ ret.contamination = 50
    /\ NRows(frames[ret.data]) >= 4
    /\ \E i \in 1..NRows(frames[ret.data]) :
          /\ 100 * LastScores[i] = LastOffset100
          /\ frames[ret.data]["anomaly"][i] = 1
    /\ 100 * Cardinality(Flagged(frames[ret.data]))
          < ret.contamination * NRows(frames[ret.data]) - 99

---------------------------------------------------------------------------
(* C6 *)

\* C6: a scoring call whose contamination is invalid (0) or whose batch has
\* no observation raises; a call that raises returns no anomalies and
\* leaves every DataFrame exactly as it was: no column is added or changed.
C6_FailedCallChangesNothing ==
    [][ /\ (\/ ret'.contamination <= 0
            \/ NRows(frames[ret'.data]) = 0) => ret'.raised
        /\ ret'.raised => /\ ret'.anomalies = None
                          /\ frames' = frames
      ]_vars

\* a call with contamination 0 has raised on a non-empty DataFrame that an
\* earlier call had scored, which still carries a flagged row
C6_Witness ==
    /\ ret # None
    /\ ret.raised
    /\ ret.contamination = 0
    /\ NRows(frames[ret.data]) > 0
    /\ Scored(frames[ret.data])
    /\ Flagged(frames[ret.data]) # {}

---------------------------------------------------------------------------
(* C7 *)

\* C7: the first row of every scored batch, whose window holds that one
\* observation, has an undefined std_dev (NaN, not 0) and a mean equal to
\* its value; no error comes of it (a call raises only on an empty batch),
\* and an exported file holds the first row exactly when it is flagged, its
\* std_dev field undefined (empty).
C7_SingleObservationWindow ==
    /\ \A o \in ObjIds :
          Scored(frames[o]) =>
             /\ frames[o]["std_dev"][1] = NaN
             /\ frames[o]["std_dev"][1] # [sqrt_of |-> [num |-> 0, den |-> 1]]
             /\ frames[o]["mean"][1] = [num |-> frames[o]["value"][1], den |-> 1]
    /\ (ret # None /\ ret.raised) => NRows(frames[ret.data]) = 0
    /\ \A name \in Range(dataset_names) :
          files[FileOf(name)] # None =>
             LET lines == files[FileOf(name)].lines
                 df == frames[datasets[name]]
             IN  /\ df["anomaly"][1] = -1
                    <=> \E k \in 1..Len(lines) :
                           lines[k][1] = df["timestamp"][1]
                 /\ \A k \in 1..Len(lines) :
                       lines[k][1] = df["timestamp"][1]
                          => /\ lines[k][2] = df["value"][1]
                             /\ lines[k][4] = [text |-> ""]

\* an exported file holds the first row of its dataset
C7_Witness ==
    \E name \in Range(dataset_names) :
        /\ files[FileOf(name)] # None
        /\ Len(files[FileOf(name)].lines) = 1
        /\ files[FileOf(name)].lines[1][1] = 1
        /\ files[FileOf(name)].lines[1][4] = [text |-> ""]

---------------------------------------------------------------------------
(* C8 *)

\* C8 as claimed: for the batch [1,2,3,4,5,100] the rolling mean at index 5
\* (the sixth row) is 3.0 and the sample variance there is 2.5.
C8_Original ==
    \A o \in ObjIds :
        (Scored(frames[o]) /\ frames[o]["value"] = <<1, 2, 3, 4, 5, 100>>)
        => /\ frames[o]["mean"][6] = [num |-> 3, den |-> 1]
           /\ frames[o]["std_dev"][6] = [sqrt_of |-> [num |-> 5, den |-> 2]]

\* C8 as amended: for the batch [1,2,3,4,5,100] the rolling mean is 3.0,
\* with sample variance 2.5 (std about 1.58), at index 4, the fifth row,
\* whose window holds the values 1..5; at index 5 the window holds
\* 2,3,4,5,100, the mean is 22.8 and the sample variance 1863.7 (std about
\* 43.17).
C8_ScenarioRollingStatistics ==
    \A o \in ObjIds :
        (Scored(frames[o]) /\ frames[o]["value"] = <<1, 2, 3, 4, 5, 100>>)
        => /\ frames[o]["mean"][5] = [num |-> 3, den |-> 1]
           /\ frames[o]["std_dev"][5] = [sqrt_of |-> [num |-> 5, den |-> 2]]
           /\ frames[o]["mean"][6] = [num |-> 114, den |-> 5]
           /\ frames[o]["std_dev"][6]
                 = [sqrt_of |-> [num |-> 18637, den |-> 10]]

\* the scenario batch has been scored, the point 100 alone being flagged
C8_Witness ==
    \E o \in ObjIds :
        /\ Scored(frames[o])
        /\ frames[o]["value"] = <<1, 2, 3, 4, 5, 100>>
        /\ Flagged(frames[o]) = {6}

---------------------------------------------------------------------------
(* C9 *)

\* C9: no step changes the timestamp or the value column of any dataset,
\* nor removes a column; a step adds or overwrites at most the columns
\* anomaly, mean and std_dev, and only in the dataset it scores, the active
\* one; every other dataset is left as it was.
C9_ScoringFrame ==
    [][ \A o \in ObjIds :
          /\ frames'[o]["timestamp"] = frames[o]["timestamp"]
          /\ frames'[o]["value"] = frames[o]["value"]
          /\ DOMAIN frames[o] \subseteq DOMAIN frames'[o]
          /\ DOMAIN frames'[o]
                \subseteq DOMAIN frames[o] \cup {"anomaly", "mean", "std_dev"}
          /\ \A c \in DOMAIN frames'[o] :
                Len(frames'[o][c]) = Len(frames[o]["value"])
          /\ o # current_data'.data => frames'[o] = frames[o]
      ]_vars

\* the Taxi dataset is active and scored, with a normal row, after the CPU
\* dataset was scored, with a flagged row, and exported
C9_Witness ==
    /\ current_data.name = "NYC Taxi Demand"
    /\ Scored(frames[datasets["NYC Taxi Demand"]])
    /\ Flagged(frames[datasets["NYC Taxi Demand"]])
          # 1..NRows(frames[datasets["NYC Taxi Demand"]])
    /\ Scored(frames[datasets["Server CPU Load"]])
    /\ Flagged(frames[datasets["Server CPU Load"]]) # {}
    /\ files["cpu_anomalies.csv"] # None

---------------------------------------------------------------------------
(* C10 *)

\* what C10 says of the active dataset, but for the scoring: the DataFrame
\* of current_data is the one registered under its name, before and after
\* every step; a step that changes the active dataset moves it to the next
\* in the cyclic order and calls the scoring on the newly active dataset;
\* an 'Export CSV' click leaves the active dataset as it is
ActiveDatasetCycles ==
    /\ current_data.data = datasets[current_data.name]
    /\ current_data'.data = datasets[current_data'.name]
    /\ current_data' # current_data =>
          /\ current_data'.name = After(current_data.name)
          /\ ret'.data = current_data'.data
    /\ save_anomalies => current_data' = current_data
    /\ After(After(After(current_data.name))) = current_data.name

\* C10 as claimed: ...and every switch re-scores the newly active dataset.
C10_Original ==
    [][ /\ ActiveDatasetCycles
        /\ current_data' # current_data =>
              /\ ~ret'.raised
              /\ Scored(frames'[current_data'.data])
      ]_vars

\* C10 as amended: ...and every switch calls the scoring pass on the newly
\* active dataset, which re-scores it (and draws it) when it holds an
\* observation; when it holds none, the pass raises, no DataFrame changes
\* and the plot stays, while the active dataset has advanced all the same.
C10_SwitchCyclesAndScores ==
    [][ /\ ActiveDatasetCycles
        /\ current_data' # current_data =>
              IF NRows(frames[current_data'.data]) > 0
              THEN /\ ~ret'.raised
                   /\ Scored(frames'[current_data'.data])
                   /\ plotted' = current_data'.name
              ELSE /\ ret'.raised
                   /\ frames' = frames
                   /\ plotted' = plotted
      ]_vars

\* the CPU dataset is active again after a switch to the Temperature
\* dataset, which was scored, and a switch to the Taxi dataset, which holds
\* no observation and is not scored
C10_Witness ==
    /\ current_data.name = "Server CPU Load"
    /\ current_data.data = datasets["Server CPU Load"]
    /\ plotted = "Server CPU Load"
    /\ Scored(frames[datasets["Ambient System Temperature"]])
    /\ NRows(frames[datasets["NYC Taxi Demand"]]) = 0
    /\ ~Scored(frames[datasets["NYC Taxi Demand"]])
    /\ ret.data = datasets["Server CPU Load"]

====
